---- MODULE Spec2Model ----
(***************************************************************************)
(* cadracks-ide: the observable Model (model.py), the 3D panel's selection *)
(* handler ThreeDPanel.on_selected_change (three_d.py) and the reading of  *)
(* the configuration in CadracksIdeFrame.__init__ (cadracks_ide_ui.py).    *)
(*                                                                         *)
(* Paths are sequences of one-character strings, so that os.path.splitext  *)
(* and str.lower are computed, not assumed.  What the file system and the  *)
(* external libraries answer (isdir, open, is_valid_python, the importers, *)
(* the display calls) is chosen nondeterministically at the step that asks.*)
(***************************************************************************)
EXTENDS Integers, Sequences, FiniteSets, TLC

\* ------------------------------------------------------------------ bounds
\* Largest number of shapes / parts / assemblies one import yields.
MaxShapes == 2
\* Largest number of keys in the "data" section of a parts library.
MaxKeys == 2
\* Largest length of sys.path's tail of appended root folders.
MaxSysPath == 1

\* ----------------------------------------------------------------- strings
UpperAlpha == <<"A","B","C","D","E","F","G","H","I","J","K","L","M",
                "N","O","P","Q","R","S","T","U","V","W","X","Y","Z">>
LowerAlpha == <<"a","b","c","d","e","f","g","h","i","j","k","l","m",
                "n","o","p","q","r","s","t","u","v","w","x","y","z">>

\* str.lower on one character
LowerChar(c) ==
    IF \E i \in 1..Len(UpperAlpha) : UpperAlpha[i] = c
    THEN LowerAlpha[CHOOSE i \in 1..Len(UpperAlpha) : UpperAlpha[i] = c]
    ELSE c

\* str.lower
lower(s) == [i \in 1..Len(s) |-> LowerChar(s[i])]

\* str.rfind(c) with 0-based result, -1 when absent
rfind(s, c) ==
    LET hits == {i \in 1..Len(s) : s[i] = c}
    IN  IF hits = {} THEN -1
        ELSE (CHOOSE i \in hits : \A j \in hits : j <= i) - 1

\* os.path.splitext(p)[1] (genericpath._splitext with sep "/", extsep "."):
\* the text from the last point of the last path component, unless that
\* component has only leading points before it.
splitext_ext(p) ==
    LET sepIndex == rfind(p, "/")
        dotIndex == rfind(p, ".")
    IN  IF dotIndex > sepIndex
           /\ \E f \in (sepIndex + 1)..(dotIndex - 1) : p[f + 1] # "."
        THEN SubSeq(p, dotIndex + 1, Len(p))
        ELSE <<>>

\* The characters str.strip() removes among those of the inputs.
Whitespace == {" "}

\* str.strip
RECURSIVE strip(_)
strip(s) ==
    IF s = <<>> THEN s
    ELSE IF Head(s) \in Whitespace THEN strip(Tail(s))
    ELSE IF s[Len(s)] \in Whitespace THEN strip(SubSeq(s, 1, Len(s) - 1))
    ELSE s

\* get_file_extension(filename), d being what isdir(filename) answers.
get_file_extension(d, f) ==
    IF ~d
    THEN LET index == rfind(f, ".")
         IN  IF index > -1
             THEN lower(strip(SubSeq(f, index + 1, Len(f))))
             ELSE <<>>
    ELSE <<"d","i","r","e","c","t","o","r","y">>

\* ------------------------------------------------------------------ inputs
ExtPy      == <<".","p","y">>
ExtStep    == <<".","s","t","e","p">>
ExtStp     == <<".","s","t","p">>
ExtIges    == <<".","i","g","e","s">>
ExtIgs     == <<".","i","g","s">>
ExtStl     == <<".","s","t","l">>
ExtJson    == <<".","j","s","o","n">>
ExtStepzip == <<".","s","t","e","p","z","i","p">>

\* The selectable paths: every recognized extension, upper- and mixed-case
\* spellings, unrecognized and missing extensions, a name made of a leading
\* point only, and directories whose names contain a point.
Paths ==
    {<<"a">> \o e : e \in {ExtPy, ExtStep, ExtStp, ExtIges, ExtIgs, ExtStl,
                           ExtJson, ExtStepzip}}
    \cup {<<"a",".","P","Y">>, <<"a",".","S","t","p">>,
          <<"a",".","J","S","O","N">>, <<"a",".","t","x","t">>, <<"a">>,
          ExtPy, <<"d",".","p","y","/","a">>,
          <<"d",".","x","/","a",".","s","t","l">>}

\* The folders the folder dialog can return.
Folders == {<<"d",".","p","y">>}

\* ------------------------------------------------------------------- state
VARIABLES
    root_folder,   \* Model.root_folder
    selected,      \* Model.selected
    sys_path,      \* the entries appended to sys.path
    call,          \* the Model method being executed, "none" outside
    arg,           \* its argument
    stmt,          \* index of its next statement
    observed,      \* value of the member an observer reads when notified
    pc,            \* position inside on_selected_change, "idle" outside
    sel,           \* on_selected_change: local sel
    is_dir,        \* on_selected_change: what isdir(sel) answered
    branch,        \* on_selected_change: the branch of the if/elif chain
    marker,        \* on_selected_change: local is_library_file
    data_keys,     \* on_selected_change: len(json_file_content["data"]), -1 unset
    exc,           \* the exception in flight, "none" when there is none
    busy,          \* number of live wx.BusyInfo objects
    viewport,      \* what the viewer displays
    log,           \* log records written since the last Model method call
    invoked,       \* importers called since the last Model method call
    failed,        \* an importer or display step raised since then
    raised,        \* exception that left the last handler call, "none" if none
    content,       \* on_selected_change: what is_valid_python(content) answered
    module_,       \* on_selected_change: local module_ (loaded, its attributes)
    extra_info,    \* keys of the dict extra_info among the shapes displayed
    info,          \* what the last call of display_extra_info did
    dcall,         \* display_part/_assembly/_assemblies: the call and its arguments
    dpos,          \* its loop counters (assembly, part) and whether it returned
    scene,         \* the display_shape calls it made
    dlg,           \* on_open: what dlg.ShowModal() returned, "none" outside
    path,          \* on_open: local path
    open_pc,       \* on_open: the next statement of its body, 0 when not running
    notified,      \* the topics notified since the last menu or tree event
    filename,      \* get_file_extension: its argument
    isdir,         \* get_file_extension: what isdir(filename) answers
    extension,     \* get_file_extension: whether it returned, and what
    config,        \* CadracksIdeFrame.config
    fpc,           \* position inside CadracksIdeFrame.__init__
    opt,           \* the next assignment of its try block, 1..6
    frame          \* the options of the frame

vars == <<root_folder, selected, sys_path, call, arg, stmt, observed, pc, sel,
          is_dir, branch, marker, data_keys, exc, busy, viewport, log,
          invoked, failed, raised, content, module_, extra_info, info, dcall, dpos, scene,
          dlg, path, open_pc, notified, filename, isdir, extension, config,
          fpc, opt, frame>>

modelVars == <<root_folder, selected, sys_path>>
handlerVars == <<pc, sel, is_dir, branch, marker, data_keys, exc, busy,
                 viewport>>
frameVars == <<config, fpc, opt, frame>>
pyVars == <<content, module_>>
infoVars == <<extra_info, info>>
displayVars == <<dcall, dpos, scene>>
openVars == <<dlg, path, open_pc, notified>>
extVars == <<filename, isdir, extension>>
unitVars == <<displayVars, extVars>>
mainVars == <<modelVars, call, arg, stmt, observed, handlerVars, log, invoked,
              failed, raised, frameVars, pyVars, infoVars>>

\* ------------------------------------------------------- the configuration
\* float(s) in tenths; ok is FALSE when float(s) raises ValueError
float_(s) ==
    CASE s = "0"   -> [ok |-> TRUE, val |-> 0]
      [] s = "0.2" -> [ok |-> TRUE, val |-> 2]
      [] s = "0.5" -> [ok |-> TRUE, val |-> 5]
      [] s = "12"  -> [ok |-> TRUE, val |-> 120]
      [] s = "20"  -> [ok |-> TRUE, val |-> 200]
      [] s = "50"  -> [ok |-> TRUE, val |-> 500]
      [] s = "255" -> [ok |-> TRUE, val |-> 2550]
      [] OTHER     -> [ok |-> FALSE, val |-> 0]

\* int(s); ok is FALSE when int(s) raises ValueError
int_(s) ==
    CASE s = "0"   -> [ok |-> TRUE, val |-> 0]
      [] s = "12"  -> [ok |-> TRUE, val |-> 12]
      [] s = "20"  -> [ok |-> TRUE, val |-> 20]
      [] s = "50"  -> [ok |-> TRUE, val |-> 50]
      [] s = "255" -> [ok |-> TRUE, val |-> 255]
      [] OTHER     -> [ok |-> FALSE, val |-> 0]

\* A key of a ConfigObj section: absent, or the strings of its value (one
\* string for a scalar, several for a comma separated list).
Absent == [present |-> FALSE, v |-> <<>>]
Key(v) == [present |-> TRUE, v |-> v]

FlagValues       == {Absent, Key(<<"True">>), Key(<<"False">>)}
ColourValues     == {Absent, Key(<<"50","50","50">>), Key(<<"0","x","0">>)}
FloatValues      == {Absent, Key(<<"0.5">>), Key(<<"abc">>)}
IntValues        == {Absent, Key(<<"12">>), Key(<<"0.5">>)}
TextColourValues == {Absent, Key(<<"255","0","0">>)}

\* A section: absent (its keys are then all absent), or present with keys.
FrameSections ==
    {[present |-> FALSE, maximize |-> Absent, confirm_close |-> Absent]}
    \cup [present : {TRUE}, maximize : FlagValues, confirm_close : FlagValues]
ViewerSections ==
    {[present |-> FALSE, viewer_background_colour |-> Absent,
      objects_transparency |-> Absent, text_height |-> Absent,
      text_colour |-> Absent]}
    \cup [present : {TRUE},
          viewer_background_colour : ColourValues,
          objects_transparency : FloatValues,
          text_height : IntValues,
          text_colour : TextColourValues]

\* get_config(): None without an ini file, the ConfigObj otherwise
NoConfig ==
    [none |-> TRUE,
     frame |-> [present |-> FALSE, maximize |-> Absent,
                confirm_close |-> Absent],
     viewer |-> [present |-> FALSE, viewer_background_colour |-> Absent,
                 objects_transparency |-> Absent, text_height |-> Absent,
                 text_colour |-> Absent]]
get_config ==
    {NoConfig} \cup [none : {FALSE}, frame : FrameSections,
                     viewer : ViewerSections]

\* self.config[section][key]: the value, or the exception the lookup raises
Lookup(c, section, key) ==
    IF c.none THEN [err |-> "TypeError", v |-> <<>>]
    ELSE IF ~c[section].present THEN [err |-> "KeyError", v |-> <<>>]
    ELSE IF ~c[section][key].present THEN [err |-> "KeyError", v |-> <<>>]
    ELSE [err |-> "none", v |-> c[section][key].v]

\* tuple([float(el) for el in v])
FloatTuple(v) ==
    IF \E i \in 1..Len(v) : ~float_(v[i]).ok
    THEN [err |-> "ValueError", v |-> <<>>]
    ELSE [err |-> "none", v |-> [i \in 1..Len(v) |-> float_(v[i]).val]]

\* float(v) or int(v) of a scalar
Scalar(r) ==
    IF r.ok THEN [err |-> "none", v |-> <<r.val>>]
    ELSE [err |-> "ValueError", v |-> <<>>]

OptionNames == <<"frame_maximize", "confirm_close",
                 "viewer_background_colour", "objects_transparency",
                 "text_height", "text_colour">>

\* The i-th assignment of the try block: the value assigned (scalars as
\* one-element tuples), or the exception raised.
ReadOption(i, c) ==
    LET l == CASE i = 1 -> Lookup(c, "frame", "maximize")
               [] i = 2 -> Lookup(c, "frame", "confirm_close")
               [] i = 3 -> Lookup(c, "viewer", "viewer_background_colour")
               [] i = 4 -> Lookup(c, "viewer", "objects_transparency")
               [] i = 5 -> Lookup(c, "viewer", "text_height")
               [] i = 6 -> Lookup(c, "viewer", "text_colour")
    IN  IF l.err # "none" THEN l
        ELSE CASE i \in {1, 2} -> [err |-> "none", v |-> <<l.v = <<"True">> >>]
               [] i \in {3, 6} -> FloatTuple(l.v)
               [] i = 4        -> Scalar(float_(l.v[1]))
               [] i = 5        -> Scalar(int_(l.v[1]))

\* No option assigned yet.
Unset == [n \in {OptionNames[i] : i \in 1..6} |-> <<>>]

\* The except clause's assignments (floats in tenths).
Defaults ==
    [frame_maximize |-> <<TRUE>>,
     confirm_close |-> <<TRUE>>,
     viewer_background_colour |-> <<500, 500, 500>>,
     objects_transparency |-> <<2>>,
     text_height |-> <<20>>,
     text_colour |-> <<0, 0, 0>>]

\* main(): the frame is constructed with what get_config() returns.
InitFrame ==
    /\ config \in get_config
    /\ fpc = "try"
    /\ opt = 1
    /\ frame = Unset

\* One assignment of the try block.  TypeError and KeyError are caught,
\* anything else leaves __init__.
FrameReadOption ==
    /\ fpc = "try"
    /\ LET r == ReadOption(opt, config)
       IN  IF r.err = "none"
           THEN /\ frame' = [frame EXCEPT ![OptionNames[opt]] = r.v]
                /\ fpc' = IF opt = Len(OptionNames) THEN "panels" ELSE "try"
                /\ opt' = IF opt = Len(OptionNames) THEN opt ELSE opt + 1
           ELSE /\ frame' = frame
                /\ opt' = opt
                /\ fpc' = IF r.err \in {"TypeError", "KeyError"}
                          THEN "except" ELSE "crashed"
    /\ UNCHANGED <<config, modelVars, handlerVars, call, arg, stmt, observed,
                   log, invoked, failed, raised, pyVars, infoVars>>
    /\ UNCHANGED <<unitVars, openVars>>

\* The except (TypeError, KeyError) clause.
FrameExcept ==
    /\ fpc = "except"
    /\ frame' = Defaults
    /\ fpc' = "panels"
    /\ UNCHANGED <<config, opt, modelVars, handlerVars, call, arg, stmt,
                   observed, log, invoked, failed, raised, pyVars, infoVars>>
    /\ UNCHANGED <<unitVars, openVars>>

\* The rest of __init__: the panels are built from the options.
FramePanels ==
    /\ fpc = "panels"
    /\ fpc' = "done"
    /\ UNCHANGED <<config, opt, frame, modelVars, handlerVars, call, arg, stmt,
                   observed, log, invoked, failed, raised, pyVars, infoVars>>
    /\ UNCHANGED <<unitVars, openVars>>

\* ---------------------------------------------------------------- the log
Entry(level, msg, a) == [level |-> level, msg |-> msg, arg |-> a]

\* ------------------------------------------------------------ the viewport
\* A displayed shape: whether it was displayed since the last Model method
\* call (cur), what displayed it, and its place in the import (assembly
\* index, 0 outside display_assemblies, and index in the loop).
Item(kind, asm, idx) == [cur |-> TRUE, kind |-> kind, asm |-> asm, idx |-> idx]
Items(kind, asm, k) == {Item(kind, asm, i) : i \in 1..k}

\* Wx3dViewer.erase_all
erase_all == {}

\* ------------------------------------------------------------- the Model
\* The statements of the two setters, in order.  A statement carries the
\* logger.debug call that precedes it.
set_root_folder == <<"store", "sys_path_append", "notify">>
\* set_selected notifying before it stores.
set_selected_NotifyFirst == <<"notify", "store">>

set_selected == <<"store", "notify">>

Body(c) == IF c = "set_root_folder" THEN set_root_folder ELSE set_selected

\* on_open calling the two setters in the other order.
on_open_SelectedFirst == <<"set_selected", "set_root_folder">>

\* The calls on_open makes on the model when the dialog is confirmed.
on_open == <<"set_root_folder", "set_selected">>

\* The colour arguments: None, a literal RGB triple, or what
\* color_from_sequence returned (its module is imported, three_d.py:48; the
\* colour it returns for an index is kept as the term of its arguments).
None == [from |-> "None", v |-> <<>>]

rgb(r, g, b) == [from |-> "rgb", v |-> <<r, g, b>>]

color_from_sequence(i, name) == [from |-> name, v |-> <<i>>]

\* No display method was called yet.
NoCall == [method |-> "none", color |-> None, sizes |-> <<>>]

\* get_file_extension has not returned.
NotReturned == [done |-> FALSE, v |-> <<>>]

\* The file names get_file_extension is applied to: a file name alone or
\* behind a directory, with and without points in either.
FileNames ==
    {d \o n :
        d \in {<<>>, <<"d","/">>, <<"d",".","p","y","/">>, <<"d",".","x","/">>},
        n \in {<<"a">>, <<"a",".","p","y">>, <<"a",".","P","Y">>,
               <<"a",".","s","t","l">>, <<".","p","y">>,
               <<"a",".","b",".","j","s","o","n">>, <<"a",".">>,
               <<"a",".","p","y"," ">>}}

\* No module loaded.
NoModule == [loaded |-> FALSE, attrs |-> {}]

\* After construction: an empty model, an idle panel with an empty scene,
\* and the frame built without an ini file.
Init ==
    /\ root_folder = <<>>
    /\ selected = <<>>
    /\ sys_path = <<>>
    /\ call = "none"
    /\ arg = <<>>
    /\ stmt = 1
    /\ observed = <<>>
    /\ pc = "idle"
    /\ sel = <<>>
    /\ is_dir = FALSE
    /\ branch = "none"
    /\ marker = FALSE
    /\ data_keys = -1
    /\ exc = "none"
    /\ busy = 0
    /\ viewport = {}
    /\ log = <<>>
    /\ invoked = {}
    /\ failed = FALSE
    /\ raised = "none"
    /\ content = "unread"
    /\ module_ = NoModule
    /\ extra_info = {}
    /\ info = "none"
    /\ dcall = NoCall
    /\ dpos = [a |-> 0, i |-> 0, done |-> TRUE]
    /\ scene = <<>>
    /\ dlg = "none"
    /\ path = <<>>
    /\ open_pc = 0
    /\ notified = <<>>
    /\ filename = <<>>
    /\ isdir = FALSE
    /\ extension = NotReturned
    /\ config = NoConfig
    /\ fpc = "done"
    /\ opt = 1
    /\ frame = Defaults

\* get_file_extension is about to be called on a file name, in the state the
\* program is in after construction.
InitExt ==
    /\ root_folder = <<>>
    /\ selected = <<>>
    /\ sys_path = <<>>
    /\ call = "none"
    /\ arg = <<>>
    /\ stmt = 1
    /\ observed = <<>>
    /\ pc = "idle"
    /\ sel = <<>>
    /\ is_dir = FALSE
    /\ branch = "none"
    /\ marker = FALSE
    /\ data_keys = -1
    /\ exc = "none"
    /\ busy = 0
    /\ viewport = {}
    /\ log = <<>>
    /\ invoked = {}
    /\ failed = FALSE
    /\ raised = "none"
    /\ content = "unread"
    /\ module_ = NoModule
    /\ extra_info = {}
    /\ info = "none"
    /\ dcall = NoCall
    /\ dpos = [a |-> 0, i |-> 0, done |-> TRUE]
    /\ scene = <<>>
    /\ dlg = "none"
    /\ path = <<>>
    /\ open_pc = 0
    /\ notified = <<>>
    /\ filename \in FileNames
    /\ isdir \in BOOLEAN
    /\ extension = NotReturned
    /\ config = NoConfig
    /\ fpc = "done"
    /\ opt = 1
    /\ frame = Defaults

\* get_file_extension(filename) returns.
GetFileExtension ==
    /\ ~extension.done
    /\ extension' = [done |-> TRUE, v |-> get_file_extension(isdir, filename)]
    /\ UNCHANGED <<mainVars, openVars, displayVars, filename, isdir>>

\* main() before the frame is constructed.
InitMain ==
    /\ InitFrame
    /\ root_folder = <<>>
    /\ selected = <<>>
    /\ sys_path = <<>>
    /\ call = "none"
    /\ arg = <<>>
    /\ stmt = 1
    /\ observed = <<>>
    /\ pc = "idle"
    /\ sel = <<>>
    /\ is_dir = FALSE
    /\ branch = "none"
    /\ marker = FALSE
    /\ data_keys = -1
    /\ exc = "none"
    /\ busy = 0
    /\ viewport = {}
    /\ log = <<>>
    /\ invoked = {}
    /\ failed = FALSE
    /\ raised = "none"
    /\ content = "unread"
    /\ module_ = NoModule
    /\ extra_info = {}
    /\ info = "none"
    /\ dcall = NoCall
    /\ dpos = [a |-> 0, i |-> 0, done |-> TRUE]
    /\ scene = <<>>
    /\ dlg = "none"
    /\ path = <<>>
    /\ open_pc = 0
    /\ notified = <<>>
    /\ filename = <<>>
    /\ isdir = FALSE
    /\ extension = NotReturned

\* A caller enters a Model method with argument p.  The records of the
\* previous call are dropped and what is on display stops being current.
Enter(method, p) ==
    /\ call = "none"
    /\ pc = "idle"
    /\ fpc = "done"
    /\ call' = method
    /\ arg' = p
    /\ stmt' = 1
    /\ observed' = <<>>
    /\ log' = <<>>
    /\ invoked' = {}
    /\ failed' = FALSE
    /\ raised' = "none"
    /\ sel' = <<>>
    /\ is_dir' = FALSE
    /\ branch' = "none"
    /\ marker' = FALSE
    /\ data_keys' = -1
    /\ content' = "unread"
    /\ module_' = NoModule
    /\ viewport' = {[x EXCEPT !.cur = FALSE] : x \in viewport}
    /\ extra_info' = {[x EXCEPT !.cur = FALSE] : x \in extra_info \cap viewport}
    /\ info' = "none"
    /\ UNCHANGED <<modelVars, pc, exc, busy, frameVars>>
    /\ UNCHANGED unitVars

\* The Open menu item: the folder dialog is shown and answers.  Cancelled,
\* only dlg.Destroy() is left to do; confirmed, path is what it returns.
OnOpen ==
    /\ call = "none"
    /\ pc = "idle"
    /\ fpc = "done"
    /\ open_pc = 0
    /\ \/ /\ dlg' = "ID_CANCEL"
          /\ path' = <<>>
          /\ open_pc' = Len(on_open) + 1
       \/ /\ Len(sys_path) < MaxSysPath
          /\ dlg' = "ID_OK"
          /\ \E p \in Folders : path' = p
          /\ open_pc' = 1
    /\ notified' = <<>>
    /\ UNCHANGED <<modelVars, call, arg, stmt, observed, handlerVars, log,
                   invoked, failed, raised, frameVars, pyVars, infoVars>>
    /\ UNCHANGED unitVars

\* self.model.set_root_folder(path), in on_open.
CallSetRootFolder ==
    /\ open_pc \in 1..Len(on_open)
    /\ on_open[open_pc] = "set_root_folder"
    /\ Enter("set_root_folder", path)
    /\ open_pc' = open_pc + 1
    /\ UNCHANGED <<dlg, path, notified>>

\* self.model.set_selected(...): in on_open with path, or from the tree with
\* the item the user selected.
CallSetSelected ==
    \/ /\ open_pc \in 1..Len(on_open)
       /\ on_open[open_pc] = "set_selected"
       /\ Enter("set_selected", path)
       /\ open_pc' = open_pc + 1
       /\ UNCHANGED <<dlg, path, notified>>
    \/ /\ open_pc = 0
       /\ \E p \in Paths \cup Folders : Enter("set_selected", p)
       /\ dlg' = "none"
       /\ path' = <<>>
       /\ notified' = <<>>
       /\ UNCHANGED open_pc

\* dlg.Destroy(): on_open returns.  (raised is of the last Model method
\* call: after a cancel it tells nothing about on_open.)
OnOpenDestroy ==
    /\ open_pc = Len(on_open) + 1
    /\ call = "none"
    /\ pc = "idle"
    /\ dlg = "ID_CANCEL" \/ raised = "none"
    /\ open_pc' = 0
    /\ UNCHANGED <<mainVars, unitVars, dlg, path, notified>>

\* An exception left set_selected: it leaves on_open too, before
\* dlg.Destroy().
OnOpenRaise ==
    /\ dlg = "ID_OK"
    /\ open_pc > 1
    /\ call = "none"
    /\ pc = "idle"
    /\ raised # "none"
    /\ open_pc' = 0
    /\ UNCHANGED <<mainVars, unitVars, dlg, path, notified>>

\* self.root_folder = root_folder / self.selected = selected
ModelStore ==
    /\ call # "none"
    /\ pc = "idle"
    /\ stmt <= Len(Body(call))
    /\ Body(call)[stmt] = "store"
    /\ IF call = "set_root_folder"
       THEN /\ root_folder' = arg
            /\ log' = Append(log, Entry("DEBUG", "Setting the root folder", <<>>))
            /\ UNCHANGED selected
       ELSE /\ selected' = arg
            /\ log' = Append(log, Entry("DEBUG", "Setting the selected item", <<>>))
            /\ UNCHANGED root_folder
    /\ stmt' = stmt + 1
    /\ UNCHANGED <<sys_path, call, arg, observed, handlerVars, invoked, failed,
                   raised, frameVars, pyVars, infoVars>>
    /\ UNCHANGED <<unitVars, openVars>>

\* sys.path.append(root_folder)
ModelSysPathAppend ==
    /\ call # "none"
    /\ pc = "idle"
    /\ stmt <= Len(Body(call))
    /\ Body(call)[stmt] = "sys_path_append"
    /\ sys_path' = Append(sys_path, arg)
    /\ stmt' = stmt + 1
    /\ UNCHANGED <<root_folder, selected, call, arg, observed, handlerVars,
                   log, invoked, failed, raised, frameVars, pyVars, infoVars>>
    /\ UNCHANGED <<unitVars, openVars>>

\* self.notify(...): the observers run now.  The 3D panel observes
\* selected_changed; the observers of root_folder_changed read root_folder.
ModelNotify ==
    /\ call # "none"
    /\ pc = "idle"
    /\ stmt <= Len(Body(call))
    /\ Body(call)[stmt] = "notify"
    /\ stmt' = stmt + 1
    /\ IF call = "set_root_folder"
       THEN /\ observed' = root_folder
            /\ log' = Append(log, Entry("DEBUG", "Notify that root folder changed", <<>>))
            /\ notified' = Append(notified, "root_folder_changed")
            /\ pc' = pc
       ELSE /\ observed' = observed
            /\ log' = Append(log, Entry("DEBUG", "Notify that selected item changed", <<>>))
            /\ notified' = Append(notified, "selected_changed")
            /\ pc' = "entry"
    /\ UNCHANGED <<modelVars, call, arg, sel, is_dir, branch, marker,
                   data_keys, exc, busy, viewport, invoked, failed, raised,
                   frameVars, pyVars, infoVars>>
    /\ UNCHANGED unitVars
    /\ UNCHANGED <<dlg, path, open_pc>>

\* The method returns to its caller.
ModelReturn ==
    /\ call # "none"
    /\ pc = "idle"
    /\ stmt > Len(Body(call))
    /\ call' = "none"
    /\ UNCHANGED <<modelVars, arg, stmt, observed, handlerVars, log, invoked,
                   failed, raised, frameVars, pyVars, infoVars>>
    /\ UNCHANGED <<unitVars, openVars>>

\* The chain comparing the extension as written, without lower().
Branch_NoLower(d, s) ==
    IF d THEN "directory"
    ELSE LET ext == splitext_ext(s)
         IN  CASE ext = ExtPy              -> "py"
               [] ext \in {ExtStep, ExtStp} -> "step"
               [] ext \in {ExtIges, ExtIgs} -> "iges"
               [] ext = ExtStl             -> "stl"
               [] ext = ExtJson            -> "json"
               [] ext = ExtStepzip         -> "stepzip"
               [] OTHER                    -> "unhandled"

\* The chain taking the extension from the last point of the whole path,
\* as utils.get_file_extension does, instead of os.path.splitext.
Branch_Rfind(d, s) ==
    IF d THEN "directory"
    ELSE LET i == rfind(s, ".")
             ext == IF i > -1 THEN lower(SubSeq(s, i + 1, Len(s))) ELSE <<>>
         IN  CASE ext = ExtPy              -> "py"
               [] ext \in {ExtStep, ExtStp} -> "step"
               [] ext \in {ExtIges, ExtIgs} -> "iges"
               [] ext = ExtStl             -> "stl"
               [] ext = ExtJson            -> "json"
               [] ext = ExtStepzip         -> "stepzip"
               [] OTHER                    -> "unhandled"

\* The chain testing the extension before isdir(sel).
Branch_ExtensionFirst(d, s) ==
    LET ext == lower(splitext_ext(s))
    IN  CASE ext = ExtPy              -> "py"
          [] ext \in {ExtStep, ExtStp} -> "step"
          [] ext \in {ExtIges, ExtIgs} -> "iges"
          [] ext = ExtStl             -> "stl"
          [] ext = ExtJson            -> "json"
          [] ext = ExtStepzip         -> "stepzip"
          [] OTHER -> IF d THEN "directory" ELSE "unhandled"

\* ------------------------------------------ ThreeDPanel.on_selected_change
\* The if/elif chain on isdir(sel) and splitext(sel)[1].lower().
Branch(d, s) ==
    IF d THEN "directory"
    ELSE LET ext == lower(splitext_ext(s))
         IN  CASE ext = ExtPy              -> "py"
               [] ext \in {ExtStep, ExtStp} -> "step"
               [] ext \in {ExtIges, ExtIgs} -> "iges"
               [] ext = ExtStl             -> "stl"
               [] ext = ExtJson            -> "json"
               [] ext = ExtStepzip         -> "stepzip"
               [] OTHER                    -> "unhandled"

\* An exception leaves the handler: it leaves notify() and the Model method
\* that called it as well.
Propagate(e) ==
    /\ raised' = e
    /\ pc' = "idle"
    /\ call' = "none"

\* The handler is entered: sel is read from the model, isdir(sel) answers d.
OscEnter ==
    /\ pc = "entry"
    /\ sel' = selected
    /\ \E d \in BOOLEAN :
        /\ is_dir' = d
        /\ branch' = Branch(d, selected)
        /\ log' = log \o <<Entry("DEBUG", "Selection changed", <<>>),
                           Entry("DEBUG", "sel", selected)>>
                      \o (IF d THEN <<>>
                          ELSE <<Entry("INFO", "File extension",
                                       lower(splitext_ext(selected)))>>)
    /\ pc' = "branch"
    /\ UNCHANGED <<modelVars, call, arg, stmt, observed, marker, data_keys,
                   exc, busy, viewport, invoked, failed, raised, frameVars, pyVars, infoVars>>
    /\ UNCHANGED <<unitVars, openVars>>

\* else: a directory is selected
OscDirectory ==
    /\ pc = "branch"
    /\ branch = "directory"
    /\ viewport' = erase_all
    /\ pc' = "layout"
    /\ UNCHANGED <<modelVars, call, arg, stmt, observed, sel, is_dir, branch,
                   marker, data_keys, exc, busy, log, invoked, failed, raised,
                   frameVars, pyVars, infoVars>>
    /\ UNCHANGED <<unitVars, openVars>>

\* else: the extension is not handled
OscUnhandled ==
    /\ pc = "branch"
    /\ branch = "unhandled"
    /\ log' = Append(log, Entry("ERROR", "File has an extension that is not handled by the 3D panel",
                                lower(splitext_ext(sel))))
    /\ viewport' = erase_all
    /\ pc' = "layout"
    /\ UNCHANGED <<modelVars, call, arg, stmt, observed, sel, is_dir, branch,
                   marker, data_keys, exc, busy, invoked, failed, raised,
                   frameVars, pyVars, infoVars>>
    /\ UNCHANGED <<unitVars, openVars>>

\* An except clause that swallows the exception without a log record.
LogError_Swallow(l) == l

\* logger.error(str(e)) of the except Exception clauses
LogError(l) == Append(l, Entry("ERROR", "str(e)", <<>>))

\* logger.exception(ke) of the except KeyError clauses
LogException(l) == Append(l, Entry("ERROR", "exception", <<>>))

\* What a loop displaying n objects leaves: all of them, or the first k
\* and an exception raised by a step of the loop (display_shape, display_part
\* or FitAll).
DisplayLoop(kind, asm, n) ==
    {[vp |-> Items(kind, asm, n), exc |-> "none"]}
    \cup {[vp |-> Items(kind, asm, k), exc |-> "Exception"] :
            k \in IF n > 0 THEN 0..n ELSE {}}

\* display_assembly on an assembly of n parts: as DisplayLoop, and the
\* exception may be a KeyError.
display_assembly(asm, n) ==
    UNION {IF o.exc = "none" THEN {o}
           ELSE {o, [o EXCEPT !.exc = "KeyError"]} :
           o \in DisplayLoop("part", asm, n)}

\* display_assemblies on m assemblies of n parts each: the assemblies before
\* the i-th are whole, the i-th is as display_assembly leaves it.
display_assemblies(m, n) ==
    IF m = 0 THEN {[vp |-> {}, exc |-> "none"]}
    ELSE UNION {
           {[vp |-> UNION {Items("part", a, n) : a \in 1..(i - 1)} \cup o.vp,
             exc |-> o.exc] :
              o \in {x \in display_assembly(i, n) : x.exc = "none" => i = m}} :
           i \in 1..m}

\* The attributes a loaded module may define.
ModuleAttributes ==
    SUBSET {"__shape__", "__shapes__", "__anchors__", "__assembly__",
            "__assemblies__"}

\* What one run of a try block leaves: the scene, the exception in flight,
\* the log records written, the importers called, and whether an importer
\* or display step raised.
Outcome(vp, e, l, inv, f) ==
    [vp |-> vp, exc |-> e, log |-> l, inv |-> inv, failed |-> f]

\* try: self.display_assembly(...) except KeyError: erase_all, log
KeyErrorCaught(o, l) ==
    IF o.exc = "KeyError"
    THEN Outcome(erase_all, "none", LogException(l), {}, TRUE)
    ELSE Outcome(o.vp, o.exc, l, {}, o.exc # "none")

\* The body of the try block of the .py branch testing has_shape before
\* has_shapes, has_assembly and has_assemblies.
PyDisplay_ShapeFirst(attrs) ==
    IF "__shape__" \in attrs
    THEN IF "__anchors__" \notin attrs
         THEN {Outcome(o.vp, o.exc, <<Entry("INFO", "has shape", <<>>)>>, {},
                       o.exc # "none") : o \in DisplayLoop("shape", 0, 1)}
         ELSE {Outcome(o.vp, o.exc,
                       <<Entry("INFO", "has shape and anchors", <<>>)>>,
                       {"anchorable_part_from_py_script"}, o.exc # "none") :
                 o \in DisplayLoop("part", 0, 1)}
    ELSE IF "__shapes__" \in attrs
    THEN {Outcome(o.vp, o.exc, <<Entry("INFO", "has shapeS", <<>>)>>, {},
                  o.exc # "none") :
            o \in UNION {DisplayLoop("shape", 0, n) : n \in 0..MaxShapes}}
    ELSE IF "__assembly__" \in attrs
    THEN {KeyErrorCaught(o, <<Entry("INFO", "has assembly", <<>>)>>) :
            o \in UNION {display_assembly(0, n) : n \in 0..MaxShapes}}
    ELSE IF "__assemblies__" \in attrs
    THEN {KeyErrorCaught(o, <<Entry("INFO", "has assemblies", <<>>)>>) :
            o \in UNION {display_assemblies(m, MaxShapes) : m \in 0..MaxShapes}}
    ELSE {Outcome(erase_all, "none",
                  <<Entry("WARNING", "Nothing to display", <<>>)>>, {}, FALSE)}

\* The body of the try block of the .py branch once the module is loaded
\* with attributes attrs; the scene was erased first.
PyDisplay(attrs) ==
    IF "__shapes__" \in attrs
    THEN {Outcome(o.vp, o.exc, <<Entry("INFO", "has shapeS", <<>>)>>, {},
                  o.exc # "none") :
            o \in UNION {DisplayLoop("shape", 0, n) : n \in 0..MaxShapes}}
    ELSE IF "__assembly__" \in attrs
    THEN {KeyErrorCaught(o, <<Entry("INFO", "has assembly", <<>>)>>) :
            o \in UNION {display_assembly(0, n) : n \in 0..MaxShapes}}
    ELSE IF "__assemblies__" \in attrs
    THEN {KeyErrorCaught(o, <<Entry("INFO", "has assemblies", <<>>)>>) :
            o \in UNION {display_assemblies(m, MaxShapes) : m \in 0..MaxShapes}}
    ELSE IF "__shape__" \in attrs
    THEN IF "__anchors__" \notin attrs
         THEN {Outcome(o.vp, o.exc, <<Entry("INFO", "has shape", <<>>)>>, {},
                       o.exc # "none") : o \in DisplayLoop("shape", 0, 1)}
         ELSE {Outcome(o.vp, o.exc,
                       <<Entry("INFO", "has shape and anchors", <<>>)>>,
                       {"anchorable_part_from_py_script"}, o.exc # "none") :
                 o \in DisplayLoop("part", 0, 1)}
    ELSE {Outcome(erase_all, "none",
                  <<Entry("WARNING", "Nothing to display", <<>>)>>, {}, FALSE)}

\* The try block of the .py branch: imp.load_source raises, or the module
\* is loaded, the scene erased and the module displayed.
PyTryOutcomes(vp) ==
    {[m |-> NoModule, o |-> Outcome(vp, e, <<>>, {"imp.load_source"}, TRUE)] :
        e \in {"Exception", "SystemExit"}}
    \cup UNION {
          {[m |-> [loaded |-> TRUE, attrs |-> attrs],
            o |-> Outcome(o.vp, o.exc, o.log, o.inv \cup {"imp.load_source"},
                          o.failed)] : o \in PyDisplay(attrs)} :
          attrs \in ModuleAttributes}

\* The try blocks of the STEP, IGES, STL and STEPZIP branches: the importer
\* raises, or what it returns is displayed.
ImportTryOutcomes(b) ==
    CASE b = "step" ->
           {Outcome({}, "Exception", <<>>, {"StepImporter"}, TRUE)}
           \cup {Outcome(o.vp, o.exc, <<Entry("INFO", "shapes in", <<>>)>>,
                         {"StepImporter"}, o.exc # "none") :
                   o \in UNION {DisplayLoop("shape", 0, n) : n \in 0..MaxShapes}}
      [] b = "iges" ->
           {Outcome({}, "Exception", <<>>, {"IgesImporter"}, TRUE)}
           \cup {Outcome(o.vp, o.exc, <<Entry("INFO", "shapes in", <<>>)>>,
                         {"IgesImporter"}, o.exc # "none") :
                   o \in UNION {DisplayLoop("shape", 0, n) : n \in 0..MaxShapes}}
      [] b = "stl" ->
           {Outcome({}, "Exception", <<>>, {"StlImporter"}, TRUE)}
           \cup {Outcome(o.vp, o.exc, <<>>, {"StlImporter"}, o.exc # "none") :
                   o \in DisplayLoop("shape", 0, 1)}
      [] b = "stepzip" ->
           {Outcome({}, "Exception", <<>>, {"anchorable_part_from_stepzip"}, TRUE)}
           \cup {Outcome(o.vp, o.exc, <<>>, {"anchorable_part_from_stepzip"},
                         o.exc # "none") :
                   o \in DisplayLoop("part", 0, 1)}

\* The .json try block displaying only the first key of "data".
JsonTryOutcomes_FirstKeyOnly ==
    {[n |-> -1, o |-> Outcome({}, "Exception", <<>>, {}, TRUE)]}
    \cup {[n |-> n,
           o |-> Outcome(Items("part", 0, IF n > 0 THEN 1 ELSE 0), "none", <<>>,
                         IF n > 0 THEN {"anchorable_part_from_library"} ELSE {},
                         FALSE)] : n \in 0..MaxKeys}

\* The try block of the .json branch.  json.load raises or there is no
\* "data" section (n = -1); otherwise, over the n keys, the first loop
\* loads every part to size the grid (a load may raise) and the second
\* loads and displays them.
JsonTryOutcomes ==
    {[n |-> -1, o |-> Outcome({}, "Exception", <<>>, {}, TRUE)]}
    \cup UNION {
          {[n |-> n, o |-> Outcome({}, "Exception", <<>>,
                                   {"anchorable_part_from_library"}, TRUE)] :
             x \in IF n > 0 THEN {0} ELSE {}}
          \cup {[n |-> n,
                 o |-> Outcome(d.vp, d.exc, <<>>,
                               IF n > 0 THEN {"anchorable_part_from_library"}
                               ELSE {},
                               d.exc # "none")] :
                  d \in DisplayLoop("part", 0, n)} :
          n \in 0..MaxKeys}

\* except Exception as e: logger.error(str(e))
OscExcept ==
    /\ pc = "except"
    /\ log' = LogError(log)
    /\ exc' = "none"
    /\ pc' = "finally"
    /\ UNCHANGED <<modelVars, call, arg, stmt, observed, sel, is_dir, branch,
                   marker, data_keys, busy, viewport, invoked, failed, raised,
                   frameVars, pyVars, infoVars>>
    /\ UNCHANGED <<unitVars, openVars>>

\* A finally clause that keeps the busy indicator.
DelBusyInfo_Kept(b) == b

\* del busy_info
DelBusyInfo(b) == b - 1

\* finally: del busy_info.  An exception that no clause caught goes on.
OscFinally ==
    /\ pc = "finally"
    /\ busy' = DelBusyInfo(busy)
    /\ exc' = "none"
    /\ IF exc = "none"
       THEN /\ pc' = "layout"
            /\ UNCHANGED <<call, raised>>
       ELSE Propagate(exc)
    /\ UNCHANGED <<modelVars, arg, stmt, observed, sel, is_dir, branch, marker,
                   data_keys, viewport, log, invoked, failed, frameVars, pyVars, infoVars>>
    /\ UNCHANGED <<unitVars, openVars>>

\* self.Layout() and the last logger.debug: the handler returns.
OscLayout ==
    /\ pc = "layout"
    /\ log' = Append(log, Entry("DEBUG", "code change detected in 3D panel", <<>>))
    /\ pc' = "idle"
    /\ UNCHANGED <<modelVars, call, arg, stmt, observed, sel, is_dir, branch,
                   marker, data_keys, exc, busy, viewport, invoked, failed,
                   raised, frameVars, pyVars, infoVars>>
    /\ UNCHANGED <<unitVars, openVars>>

\* The effect of a try block's outcome.
Apply(o) ==
    /\ viewport' = o.vp
    /\ extra_info' = extra_info \cup {x \in o.vp : x.cur /\ x.kind = "part"}
    /\ exc' = o.exc
    /\ log' = log \o o.log
    /\ invoked' = invoked \cup o.inv
    /\ failed' = (failed \/ o.failed)
    /\ pc' = IF o.exc = "Exception" THEN "except" ELSE "finally"

\* The .py branch loading the file whatever is_valid_python answers.
OscPyRead_ExecutesInvalid ==
    /\ pc = "branch"
    /\ branch = "py"
    /\ \/ /\ Propagate("IOError")
          /\ UNCHANGED <<busy, viewport, log, content>>
       \/ /\ content' = "valid"
          /\ busy' = busy + 1
          /\ pc' = "py_try"
          /\ UNCHANGED <<call, raised, viewport, log>>
       \/ /\ content' = "invalid"
          /\ busy' = busy + 1
          /\ pc' = "py_try"
          /\ UNCHANGED <<call, raised, viewport, log>>
    /\ UNCHANGED <<modelVars, arg, stmt, observed, sel, is_dir, branch, marker,
                   data_keys, exc, invoked, failed, module_, frameVars, infoVars>>
    /\ UNCHANGED <<unitVars, openVars>>

\* ext == ".py": the file is read and checked, outside any try block.
OscPyRead ==
    /\ pc = "branch"
    /\ branch = "py"
    /\ \/ /\ Propagate("IOError")
          /\ UNCHANGED <<busy, viewport, log, content>>
       \/ /\ content' = "valid"
          /\ busy' = busy + 1
          /\ pc' = "py_try"
          /\ UNCHANGED <<call, raised, viewport, log>>
       \/ /\ content' = "invalid"
          /\ log' = Append(log, Entry("WARNING", "Not a valid python file", <<>>))
          /\ viewport' = erase_all
          /\ pc' = "layout"
          /\ UNCHANGED <<call, raised, busy>>
    /\ UNCHANGED <<modelVars, arg, stmt, observed, sel, is_dir, branch, marker,
                   data_keys, exc, invoked, failed, module_, frameVars, infoVars>>
    /\ UNCHANGED <<unitVars, openVars>>

OscPyTry ==
    /\ pc = "py_try"
    /\ \E r \in PyTryOutcomes(viewport) :
        /\ module_' = r.m
        /\ Apply(r.o)
    /\ UNCHANGED <<modelVars, call, arg, stmt, observed, sel, is_dir, branch,
                   marker, data_keys, busy, raised, content, info, frameVars>>
    /\ UNCHANGED <<unitVars, openVars>>

\* The STEP, IGES, STL and STEPZIP branches up to their try block.
OscImportBegin ==
    /\ pc = "branch"
    /\ branch \in {"step", "iges", "stl", "stepzip"}
    /\ viewport' = erase_all
    /\ busy' = busy + 1
    /\ pc' = "import_try"
    /\ UNCHANGED <<modelVars, call, arg, stmt, observed, sel, is_dir, branch,
                   marker, data_keys, exc, log, invoked, failed, raised,
                   frameVars, pyVars, infoVars>>
    /\ UNCHANGED <<unitVars, openVars>>

OscImportTry ==
    /\ pc = "import_try"
    /\ \E o \in ImportTryOutcomes(branch) : Apply(o)
    /\ UNCHANGED <<modelVars, call, arg, stmt, observed, sel, is_dir, branch,
                   marker, data_keys, busy, raised, frameVars, pyVars, info>>
    /\ UNCHANGED <<unitVars, openVars>>

\* ext == ".json": the scene is erased and the file is searched for the
\* marker, outside any try block; m is whether "metadata" is in its text.
OscJsonRead ==
    /\ pc = "branch"
    /\ branch = "json"
    /\ viewport' = erase_all
    /\ \/ /\ Propagate("IOError")
          /\ UNCHANGED <<marker, busy>>
       \/ \E m \in BOOLEAN :
            /\ marker' = m
            /\ busy' = IF m THEN busy + 1 ELSE busy
            /\ pc' = IF m THEN "json_try" ELSE "layout"
            /\ UNCHANGED <<call, raised>>
    /\ UNCHANGED <<modelVars, arg, stmt, observed, sel, is_dir, branch,
                   data_keys, exc, log, invoked, failed, frameVars, pyVars, infoVars>>
    /\ UNCHANGED <<unitVars, openVars>>

OscJsonTry ==
    /\ pc = "json_try"
    /\ \E r \in JsonTryOutcomes :
        /\ data_keys' = r.n
        /\ Apply(r.o)
    /\ UNCHANGED <<modelVars, call, arg, stmt, observed, sel, is_dir, branch,
                   marker, busy, raised, frameVars, pyVars, info>>
    /\ UNCHANGED <<unitVars, openVars>>

\* The select callback of the viewer: the user clicks the displayed shape x
\* while the event loop is idle, and the callback looks extra_info[x] up.
display_extra_info ==
    /\ call = "none"
    /\ pc = "idle"
    /\ fpc = "done"
    /\ open_pc = 0
    /\ \E x \in viewport :
        info' = IF x \in extra_info THEN "MessageBox" ELSE "KeyError"
    /\ UNCHANGED <<modelVars, call, arg, stmt, observed, handlerVars, log,
                   invoked, failed, raised, frameVars, pyVars, extra_info>>
    /\ UNCHANGED <<unitVars, openVars>>

\* ------------------------------------------- the colours of displayed parts
\* The colours a caller may pass as color_255.
ColourArgs ==
    {None, rgb(102, 0, 102), rgb(255, 255, 255), rgb(0, 255, 0),
     color_from_sequence(0, "colors"), color_from_sequence(1, "colors")}

\* display_part(part, color_255): the display_shape call it makes.
display_part(part, color_255) ==
    [asm |-> part.asm, idx |-> part.idx,
     color |-> IF color_255 = None THEN rgb(102, 0, 102) ELSE color_255]

\* The body of the loop of display_assembly colouring every part by its
\* index, whatever color_255 is.
display_assembly_part_BySequence(i, part, color_255) ==
    display_part(part, color_from_sequence(i, "colors"))

\* The body of the loop of display_assembly for the part at index i.
display_assembly_part(i, part, color_255) ==
    LET color_seq == color_from_sequence(i, "colors")
        c == IF color_255 = None THEN color_seq ELSE color_255
    IN  display_part(part, c)

\* The color_255 display_assemblies passes for the assembly at index i.
display_assemblies_color(i) == color_from_sequence(i, "colors")

\* self.display_part(part) with part a single part.
CallDisplayPart ==
    /\ dpos.done
    /\ \E c \in ColourArgs :
        /\ dcall' = [method |-> "display_part", color |-> c, sizes |-> <<>>]
        /\ scene' = <<display_part([asm |-> 0, idx |-> 0], c)>>
    /\ dpos' = [a |-> 0, i |-> 0, done |-> TRUE]
    /\ UNCHANGED <<mainVars, openVars, extVars>>

\* self.display_assembly(assembly, color_255=c) on an assembly of n parts.
CallDisplayAssembly ==
    /\ dpos.done
    /\ \E n \in 0..MaxShapes, c \in ColourArgs :
        dcall' = [method |-> "display_assembly", color |-> c, sizes |-> <<n>>]
    /\ dpos' = [a |-> 0, i |-> 0, done |-> FALSE]
    /\ scene' = <<>>
    /\ UNCHANGED <<mainVars, openVars, extVars>>

\* self.display_assemblies(assemblies) on m assemblies of sizes[k] parts.
CallDisplayAssemblies ==
    /\ dpos.done
    /\ \E m \in 0..MaxShapes : \E sizes \in [1..m -> 0..MaxShapes] :
        dcall' = [method |-> "display_assemblies", color |-> None,
                  sizes |-> sizes]
    /\ dpos' = [a |-> 0, i |-> 0, done |-> FALSE]
    /\ scene' = <<>>
    /\ UNCHANGED <<mainVars, openVars, extVars>>

\* One turn of the loop over the parts of the current assembly.
DisplayPartStep ==
    /\ ~dpos.done
    /\ dpos.a < Len(dcall.sizes)
    /\ dpos.i < dcall.sizes[dpos.a + 1]
    /\ LET color_255 == IF dcall.method = "display_assemblies"
                         THEN display_assemblies_color(dpos.a)
                         ELSE dcall.color
           part == [asm |-> dpos.a, idx |-> dpos.i]
       IN  scene' = Append(scene, display_assembly_part(dpos.i, part, color_255))
    /\ dpos' = [dpos EXCEPT !.i = dpos.i + 1]
    /\ UNCHANGED <<mainVars, openVars, extVars, dcall>>

\* The loop over the parts is over: display_assembly returns.
DisplayAssemblyReturn ==
    /\ ~dpos.done
    /\ dpos.a < Len(dcall.sizes)
    /\ dpos.i = dcall.sizes[dpos.a + 1]
    /\ dpos' = [dpos EXCEPT !.a = dpos.a + 1, !.i = 0,
                            !.done = (dcall.method = "display_assembly")]
    /\ UNCHANGED <<mainVars, openVars, extVars, dcall, scene>>

\* The loop over the assemblies is over: display_assemblies returns.
DisplayAssembliesReturn ==
    /\ ~dpos.done
    /\ dpos.a = Len(dcall.sizes)
    /\ dpos' = [dpos EXCEPT !.done = TRUE]
    /\ UNCHANGED <<mainVars, openVars, extVars, dcall, scene>>

\* ------------------------------------------------------ the specifications
Next ==
    \/ OnOpen
    \/ OnOpenDestroy
    \/ OnOpenRaise
    \/ CallSetRootFolder
    \/ CallSetSelected
    \/ ModelStore
    \/ ModelSysPathAppend
    \/ ModelNotify
    \/ ModelReturn
    \/ OscEnter
    \/ OscDirectory
    \/ OscUnhandled
    \/ OscPyRead
    \/ OscPyTry
    \/ OscImportBegin
    \/ OscImportTry
    \/ OscJsonRead
    \/ OscJsonTry
    \/ OscExcept
    \/ OscFinally
    \/ OscLayout
    \/ display_extra_info

Spec == Init /\ [][Next]_vars

NextFrame ==
    \/ FrameReadOption
    \/ FrameExcept
    \/ FramePanels

SpecFrame == InitMain /\ [][NextFrame]_vars

NextDisplay ==
    \/ CallDisplayPart
    \/ CallDisplayAssembly
    \/ CallDisplayAssemblies
    \/ DisplayPartStep
    \/ DisplayAssemblyReturn
    \/ DisplayAssembliesReturn

SpecDisplay == Init /\ [][NextDisplay]_vars

NextExt == GetFileExtension

SpecExt == InitExt /\ [][NextExt]_vars

\* ------------------------------------------------------------- properties
\* The handler has run for the current call and is back in the event loop.
Returned == pc = "idle" /\ branch # "none"

HasError(l) == \E i \in 1..Len(l) : l[i].level = "ERROR"

\* C1: for every selection on_selected_change returns normally; no
\* exception leaves the handler towards the caller of Model.set_selected.
C1_NoExceptionLeavesHandler == raised = "none"

\* C2: whenever an importer or a display step raised, the viewport is empty
\* once on_selected_change has finished.
C2_FailureLeavesViewportEmpty ==
    (Returned /\ failed) => viewport = {}

\* The dispatch table of the specification, on lower-case extensions.
DispatchTable ==
    [e \in {ExtPy, ExtStep, ExtStp, ExtIges, ExtIgs, ExtStl, ExtJson,
            ExtStepzip} |->
        CASE e = ExtPy      -> "py"
          [] e = ExtStep    -> "step"
          [] e = ExtStp     -> "step"
          [] e = ExtIges    -> "iges"
          [] e = ExtIgs     -> "iges"
          [] e = ExtStl     -> "stl"
          [] e = ExtJson    -> "json"
          [] e = ExtStepzip -> "stepzip"]

\* The kind of importer a function belongs to.
KindOf(f) ==
    CASE f \in {"imp.load_source", "anchorable_part_from_py_script"} -> "py"
      [] f = "StepImporter"                 -> "step"
      [] f = "IgesImporter"                 -> "iges"
      [] f = "StlImporter"                  -> "stl"
      [] f = "anchorable_part_from_library" -> "json"
      [] f = "anchorable_part_from_stepzip" -> "stepzip"

\* C3: for a non-directory selection the branch taken is the one the table
\* gives for the lower-cased extension of the selected path (whatever the
\* case it is written in), only importers of that kind are invoked, and at
\* most one kind is.
C3_DispatchByLowerCasedExtension ==
    (branch # "none" /\ ~is_dir) =>
        LET e == lower(splitext_ext(sel))
        IN  /\ branch = IF e \in DOMAIN DispatchTable
                        THEN DispatchTable[e] ELSE "unhandled"
            /\ \A f \in invoked : KindOf(f) = branch
            /\ Cardinality({KindOf(f) : f \in invoked}) <= 1

\* An upper-case .PY file was dispatched to the Python importer.
C3_Witness ==
    /\ Returned
    /\ sel = <<"a", ".", "P", "Y">>
    /\ "imp.load_source" \in invoked

\* C4: when a failure of an importer or display step has been caught, an
\* error record has been written to the log by the time the handler goes on.
C4_CaughtFailureIsLogged ==
    (failed /\ exc = "none" /\ raised = "none"
        /\ pc \in {"finally", "layout", "idle"}) => HasError(log)

\* A failure was caught in the .py branch and the handler has returned.
C4_Witness ==
    /\ Returned
    /\ branch = "py"
    /\ failed
    /\ raised = "none"
    /\ HasError(log)

C6_BusyInfoExactlyAroundImport ==
    busy = IF pc \in {"py_try", "import_try", "json_try", "except", "finally"}
           THEN 1 ELSE 0

\* An import raised, and the handler is back with no busy indicator.
C6_Witness ==
    /\ Returned
    /\ failed
    /\ invoked # {}
    /\ busy = 0

\* C7: a file whose extension is not recognized (or that has none) invokes
\* no importer, logs an error naming the extension and leaves the viewport
\* cleared.
C7_UnrecognizedExtension ==
    (Returned /\ ~is_dir
        /\ lower(splitext_ext(sel)) \notin DOMAIN DispatchTable) =>
        /\ invoked = {}
        /\ viewport = {}
        /\ \E i \in 1..Len(log) :
              /\ log[i].level = "ERROR"
              /\ log[i].arg = lower(splitext_ext(sel))

\* The file named ".py" has no extension and was handled as unrecognized.
C7_Witness ==
    /\ Returned
    /\ ~is_dir
    /\ sel = ExtPy
    /\ branch = "unhandled"
    /\ HasError(log)

\* C8: selecting a directory invokes no importer and leaves the viewport
\* cleared, whatever its name.
C8_DirectoryClearsViewport ==
    (Returned /\ is_dir) => (invoked = {} /\ viewport = {})

\* The directory "d.py" was selected and the handler has returned.
C8_Witness ==
    /\ Returned
    /\ is_dir
    /\ sel = <<"d", ".", "p", "y">>
    /\ viewport = {}

\* C9: the setters store before they notify: while the 3D panel's handler
\* runs the model holds the value just set, the handler has read that
\* value, and the observers of root_folder_changed saw the new root folder.
C9_StoredBeforeNotified ==
    /\ pc # "idle" => selected = arg
    /\ pc \notin {"idle", "entry"} => sel = arg
    /\ (call = "set_root_folder" /\ stmt > Len(set_root_folder)) =>
          observed = arg

\* The handler has read the newly selected path.
C9_Witness ==
    /\ pc = "branch"
    /\ arg = <<"a", ".", "s", "t", "e", "p">>
    /\ sel = arg

\* Some expected key is missing from the configuration (or there is none).
KeyMissing(c) ==
    \/ c.none
    \/ ~c.frame.present
    \/ ~c.viewer.present
    \/ ~c.frame.maximize.present
    \/ ~c.frame.confirm_close.present
    \/ ~c.viewer.viewer_background_colour.present
    \/ ~c.viewer.objects_transparency.present
    \/ ~c.viewer.text_height.present
    \/ ~c.viewer.text_colour.present

\* C10: when the config is None or an expected key is missing, the frame is
\* created, with the program defaults for every option.
C10_MissingKeyGivesDefaults ==
    (KeyMissing(config) /\ fpc \in {"done", "crashed"}) =>
        (fpc = "done" /\ frame = Defaults)

\* The first exception the try block of __init__ raises on c, "none" when
\* every assignment succeeds.
FirstError(c) ==
    IF \A i \in 1..Len(OptionNames) : ReadOption(i, c).err = "none"
    THEN "none"
    ELSE ReadOption(CHOOSE i \in 1..Len(OptionNames) :
                        /\ ReadOption(i, c).err # "none"
                        /\ \A j \in 1..(i - 1) : ReadOption(j, c).err = "none",
                    c).err

\* When the first exception of the try block is the TypeError or KeyError of
\* a missing config, section or key, the frame is created with the defaults
\* for every option.
MissingKeyGivesDefaultsWhenCaught ==
    (FirstError(config) \in {"TypeError", "KeyError"}
        /\ fpc \in {"done", "crashed"}) =>
        (fpc = "done" /\ frame = Defaults)

\* The message each display branch of the .py branch logs on entry.
DisplayMessages ==
    {"has shapeS", "has assembly", "has assemblies", "has shape",
     "has shape and anchors", "Nothing to display"}

\* The display branches the log l shows were entered.
BranchesTaken(l) ==
    {l[i].msg : i \in DOMAIN l} \cap DisplayMessages

\* The attributes in order of precedence, with the branch each one selects.
Precedence ==
    <<[attr |-> "__shapes__", shown |-> "has shapeS"],
      [attr |-> "__assembly__", shown |-> "has assembly"],
      [attr |-> "__assemblies__", shown |-> "has assemblies"],
      [attr |-> "__shape__", shown |-> "has shape"]>>

\* The branch the precedence selects for a module with attributes attrs.
Expected(attrs) ==
    IF \A i \in DOMAIN Precedence : Precedence[i].attr \notin attrs
    THEN "Nothing to display"
    ELSE LET i == CHOOSE k \in DOMAIN Precedence :
                      /\ Precedence[k].attr \in attrs
                      /\ \A j \in 1..(k - 1) : Precedence[j].attr \notin attrs
         IN  IF Precedence[i].attr = "__shape__" /\ "__anchors__" \in attrs
             THEN "has shape and anchors"
             ELSE Precedence[i].shown

\* The items displayed by the current handler call.
Current == {x \in viewport : x.cur}

\* C11: once the module of a valid .py file is loaded, exactly one display
\* branch is taken, the first of __shapes__, __assembly__, __assemblies__,
\* __shape__ the module defines (__shape__ as an anchored part when
\* __anchors__ is defined too, as a bare shape otherwise); a module with
\* none of them leaves the viewport empty and a warning in the log.
C11_OneBranchByPrecedence ==
    module_.loaded =>
        LET e == Expected(module_.attrs) IN
        /\ BranchesTaken(log) = {e}
        /\ e \in {"has shapeS", "has shape"} =>
              \A x \in Current : x.kind = "shape" /\ x.asm = 0
        /\ e \in {"has assembly", "has shape and anchors"} =>
              \A x \in Current : x.kind = "part" /\ x.asm = 0
        /\ e = "has assemblies" =>
              \A x \in Current : x.kind = "part" /\ x.asm > 0
        /\ e \in {"has shape", "has shape and anchors"} =>
              Cardinality(Current) <= 1
        /\ (e = "has shape and anchors") <=>
              ("anchorable_part_from_py_script" \in invoked)
        /\ e = "Nothing to display" =>
              /\ viewport = {}
              /\ \E i \in DOMAIN log :
                    log[i].level = "WARNING" /\ log[i].msg = "Nothing to display"

\* A module defining every attribute was loaded: only its __shapes__ are
\* displayed.
C11_Witness ==
    /\ Returned
    /\ module_ = [loaded |-> TRUE,
                  attrs |-> {"__shape__", "__shapes__", "__anchors__",
                             "__assembly__", "__assemblies__"}]
    /\ viewport = Items("shape", 0, MaxShapes)

\* C12: a .py file whose content is not valid Python is never executed:
\* imp.load_source is not called, a warning is logged and the viewport is
\* left empty.
C12_InvalidPythonNotExecuted ==
    content = "invalid" =>
        /\ "imp.load_source" \notin invoked
        /\ ~module_.loaded
        /\ viewport = {}
        /\ \E i \in DOMAIN log :
              log[i].level = "WARNING" /\ log[i].msg = "Not a valid python file"

\* A file "a.py" that is not valid Python was selected and the handler has
\* returned.
C12_Witness ==
    /\ Returned
    /\ sel = <<"a", ".", "p", "y">>
    /\ content = "invalid"
    /\ busy = 0

\* C13: the part-info message box is available for any shape selected in
\* the viewer: display_extra_info finds an extra_info entry for every shape
\* on_selected_change displayed and completes without raising.
C13_ExtraInfoForEveryShape == info # "KeyError"

\* Every part on_selected_change displayed has its entry in extra_info, and
\* selecting it shows the message box.
PartsHaveExtraInfo ==
    /\ \A x \in viewport : x.kind = "part" => x \in extra_info
    /\ info = "KeyError" => \E x \in viewport : x.kind = "shape"

\* The number of parts in the assemblies of the current display call.
RECURSIVE Total(_)
Total(sizes) ==
    IF sizes = <<>> THEN 0 ELSE Head(sizes) + Total(Tail(sizes))

\* C14: display_assembly without a colour gives the part at index i the
\* colour color_from_sequence(i, "colors") and with a colour gives every
\* part that colour; display_assemblies gives every part of the assembly at
\* index i the colour color_from_sequence(i, "colors"), so the parts of one
\* assembly share a colour; display_part without a colour uses
\* (102, 0, 102).  Every part of the call is displayed once it returned.
C14_ColourCycling ==
    /\ \A k \in DOMAIN scene :
        LET s == scene[k] IN
        /\ (dcall.method = "display_part" /\ dcall.color = None) =>
              s.color = rgb(102, 0, 102)
        /\ (dcall.method = "display_assembly" /\ dcall.color = None) =>
              s.color = color_from_sequence(s.idx, "colors")
        /\ (dcall.method = "display_assembly" /\ dcall.color # None) =>
              s.color = dcall.color
        /\ dcall.method = "display_assemblies" =>
              /\ s.color = color_from_sequence(s.asm, "colors")
              /\ \A j \in DOMAIN scene :
                    scene[j].asm = s.asm => scene[j].color = s.color
    /\ (dpos.done /\ dcall.method \in {"display_assembly", "display_assemblies"})
          => Len(scene) = Total(dcall.sizes)

\* display_assemblies has displayed two assemblies of MaxShapes parts each.
C14_Witness ==
    /\ dpos.done
    /\ dcall.method = "display_assemblies"
    /\ dcall.sizes = <<MaxShapes, MaxShapes>>
    /\ Len(scene) = 2 * MaxShapes

\* on_open is over and its dialog was confirmed.
Confirmed == dlg = "ID_OK" /\ open_pc = 0

\* C15: on_open changes the model only on confirmation.  Cancelled, it sends
\* no notification and no step it takes changes root_folder, selected or
\* sys.path; confirmed with path p, root_folder and selected both equal p
\* afterwards, p was appended to sys.path, and root_folder_changed was
\* notified before selected_changed.
C15_OnOpenOnlyOnConfirmation ==
    /\ [](dlg = "ID_CANCEL" => (notified = <<>> /\ call = "none"))
    /\ [][dlg' = "ID_CANCEL" =>
            UNCHANGED <<root_folder, selected, sys_path>>]_vars
    /\ [](Confirmed =>
            /\ root_folder = path
            /\ selected = path
            /\ sys_path # <<>> /\ sys_path[Len(sys_path)] = path
            /\ notified = <<"root_folder_changed", "selected_changed">>)

\* The dialog was confirmed with the folder "d.py" and on_open has returned.
C15_Witness ==
    /\ Confirmed
    /\ raised = "none"
    /\ path = <<"d", ".", "p", "y">>
    /\ selected = path
    /\ notified = <<"root_folder_changed", "selected_changed">>

\* C16: get_file_extension returns 'directory' for a directory, '' for a
\* file without extension and otherwise the lower-cased extension
\* os.path.splitext computes for that path, as the 3D panel's dispatch does,
\* for a standalone file name and for a full path alike.
C16_SameExtensionAsDispatch ==
    extension.done =>
        extension.v = IF isdir THEN <<"d","i","r","e","c","t","o","r","y">>
                      ELSE lower(splitext_ext(filename))

\* For a file name with no "/" before its last point, no leading point and
\* no white space at its end, get_file_extension returns what the dispatch
\* computes.
SameExtensionForPlainNames ==
    (/\ extension.done
     /\ ~isdir
     /\ rfind(filename, "/") < rfind(filename, ".")
     /\ filename[rfind(filename, "/") + 2] # "."
     /\ filename[Len(filename)] \notin Whitespace) =>
        extension.v = lower(splitext_ext(filename))

\* C17: once on_selected_change has returned, every shape in the viewport
\* was produced from the currently selected file: nothing displayed for an
\* earlier selection is left, on success and on failure paths alike.
C17_NothingStaleInViewport ==
    (Returned /\ raised = "none") => \A x \in viewport : x.cur

\* When no importer or display step raised and the handler returned, nothing
\* displayed for an earlier selection is left.
NothingStaleWithoutFailure ==
    (Returned /\ raised = "none" /\ ~failed) => \A x \in viewport : x.cur

====
